---- MODULE Spec2Model ----
(***************************************************************************)
(* Persistent-grades feature flags (lms/djangoapps/grades/config/models.py) *)
(*                                                                         *)
(* State: the rows of the two ConfigurationModel tables, the value of the  *)
(* PERSISTENT_GRADES_ENABLED_FOR_ALL_TESTS feature setting, and the        *)
(* request cache that @request_cached() keeps for every running request.   *)
(* Operations: administrative saves of rows, begin and end of a request,   *)
(* and a call of PersistentGradesEnabledFlag.feature_enabled in a request. *)
(***************************************************************************)
EXTENDS Integers, FiniteSets, Sequences, TLC

\* ---------------------------------------------------------------- bounds
\* Number of administrative saves explored by Spec.
MaxSaves == 3
\* Number of administrative saves explored by SpecRequests.
MaxSavesRequests == 2

\* ------------------------------------------------------------ value sets
\* Python's None: an absent course_id argument, an absent setting,
\* .first() of an empty queryset.
None == "None"
\* Course keys used as the course_id argument and in CoursePersistentGradesFlag rows.
Courses == {"course-A", "course-B"}
\* The values the optional course_id argument takes.
CourseIds == Courses \cup {None}
\* Requests (threads) served one after the other by Spec.
Requests == {"r1"}
\* Requests (threads) served concurrently by SpecRequests.
AllRequests == {"r1", "r2"}
\* .first() of an empty queryset (None in place of a row).
NoRow == [none |-> TRUE]
\* The values of the optional feature setting: absent, False, True.
SettingValues == {None, "False", "True"}
\* A request cache slot holding no cached response.
Missing == [is_found |-> FALSE]
\* A request cache slot holding the cached response v.
Cached(v) == [is_found |-> TRUE, value |-> v]
\* ret when the last step was not a call of feature_enabled.
NoCall == [call |-> FALSE]

VARIABLES
    FEATURES,                     \* settings.FEATURES.get('PERSISTENT_GRADES_ENABLED_FOR_ALL_TESTS')
    PersistentGradesEnabledFlag,  \* rows of the global flag table
    CoursePersistentGradesFlag,   \* rows of the per-course flag table
    now,                          \* change_date given to the last saved row
    active,                       \* active[r]: request r is being served
    cache,                        \* cache[r][key]: the request cache of r
    first,                        \* first[r][c]: what the first call with c in r returned
    ret                           \* the call that has just returned, or NoCall

vars == <<FEATURES, PersistentGradesEnabledFlag, CoursePersistentGradesFlag,
          now, active, cache, first, ret>>

store == <<FEATURES, PersistentGradesEnabledFlag, CoursePersistentGradesFlag, now>>

\* ------------------------------------------------- ConfigurationModel
\* Python truthiness of the values used in conditions.
Truthy(v) == v \notin {None, "False", ""}

\* queryset.order_by('-change_date').first(): the row with the greatest
\* change_date, NoRow for an empty queryset.
latest(rows) ==
    IF rows = {} THEN NoRow
    ELSE CHOOSE x \in rows : \A y \in rows : y.change_date <= x.change_date

\* ConfigurationModel.current() of the global flag: the most recent row, or
\* an unsaved instance with the fields' defaults when no row was ever saved.
current ==
    IF PersistentGradesEnabledFlag = {}
    THEN [enabled |-> FALSE, enabled_for_all_courses |-> FALSE, change_date |-> 0]
    ELSE latest(PersistentGradesEnabledFlag)

\* ConfigurationModel.is_enabled(): current().enabled
is_enabled == current.enabled

\* Variant of effective: order_by('change_date'), the oldest row first.
effective_oldest(course_id) ==
    LET rows == {x \in CoursePersistentGradesFlag : x.course_id = course_id}
    IN  IF rows = {} THEN NoRow
        ELSE CHOOSE x \in rows : \A y \in rows : x.change_date <= y.change_date

\* CoursePersistentGradesFlag.objects.filter(course_id=course_id)
\*     .order_by('-change_date').first()
effective(course_id) ==
    latest({x \in CoursePersistentGradesFlag : x.course_id = course_id})

\* The course's row as feature_enabled reads it: its enabled, False without a row.
effective_enabled(course_id) ==
    IF effective(course_id) /= NoRow THEN effective(course_id).enabled ELSE FALSE

\* Variant of feature_enabled_body: the global flag is only consulted when
\* no course_id is given.
feature_enabled_course_first(course_id) ==
    IF Truthy(FEATURES) THEN TRUE
    ELSE IF ~is_enabled /\ ~Truthy(course_id) THEN FALSE
    ELSE IF ~current.enabled_for_all_courses /\ Truthy(course_id)
         THEN effective_enabled(course_id)
    ELSE TRUE

\* Variant of feature_enabled_body: enabled_for_all_courses is not consulted.
feature_enabled_no_all_courses(course_id) ==
    IF Truthy(FEATURES) THEN TRUE
    ELSE IF ~is_enabled THEN FALSE
    ELSE IF Truthy(course_id) THEN effective_enabled(course_id)
    ELSE TRUE

\* Variant of feature_enabled_body: a course without a row counts as enabled.
feature_enabled_missing_row(course_id) ==
    IF Truthy(FEATURES) THEN TRUE
    ELSE IF ~is_enabled THEN FALSE
    ELSE IF ~current.enabled_for_all_courses /\ Truthy(course_id)
         THEN (IF effective(course_id) /= NoRow
               THEN effective(course_id).enabled ELSE TRUE)
    ELSE TRUE

\* Variant of feature_enabled_body: without a course_id the answer is
\* enabled_for_all_courses.
feature_enabled_no_course(course_id) ==
    IF Truthy(FEATURES) THEN TRUE
    ELSE IF ~is_enabled THEN FALSE
    ELSE IF ~current.enabled_for_all_courses
         THEN (IF Truthy(course_id) THEN effective_enabled(course_id) ELSE FALSE)
    ELSE TRUE

\* Variant of feature_enabled_body: the feature setting is read after the
\* global flag.
feature_enabled_setting_last(course_id) ==
    IF ~is_enabled THEN FALSE
    ELSE IF Truthy(FEATURES) THEN TRUE
    ELSE IF ~current.enabled_for_all_courses /\ Truthy(course_id)
         THEN effective_enabled(course_id)
    ELSE TRUE

\* The body of PersistentGradesEnabledFlag.feature_enabled.
feature_enabled_body(course_id) ==
    IF Truthy(FEATURES) THEN TRUE
    ELSE IF ~is_enabled THEN FALSE
    ELSE IF ~current.enabled_for_all_courses /\ Truthy(course_id)
         THEN effective_enabled(course_id)
    ELSE TRUE

\* ------------------------------------------------------ request cache
\* The cache key @request_cached() derives from the call's arguments.
cache_key(course_id) == course_id

EmptyCache == [k \in CourseIds |-> Missing]

\* Variant of cache_slot: one cache for the whole process.
cache_slot_shared(r) == "r1"

\* The cache a call made in request r uses: the request's own.
cache_slot(r) == r

\* get_cached_response(key) of request r: found or not.
is_found(r, key) == cache[cache_slot(r)][key].is_found

\* What the decorated call returns in request r.
request_cached(r, course_id) ==
    IF is_found(r, cache_key(course_id))
    THEN cache[cache_slot(r)][cache_key(course_id)].value
    ELSE feature_enabled_body(course_id)

\* The request cache of r after the decorated call.
cache_set(r, course_id) ==
    [cache EXCEPT ![cache_slot(r)][cache_key(course_id)] = Cached(request_cached(r, course_id))]

\* ----------------------------------------------------------- actions
Init ==
    /\ FEATURES \in SettingValues
    /\ PersistentGradesEnabledFlag = {}
    /\ CoursePersistentGradesFlag = {}
    /\ now = 0
    /\ active = [r \in AllRequests |-> FALSE]
    /\ cache = [r \in AllRequests |-> EmptyCache]
    /\ first = [r \in AllRequests |-> EmptyCache]
    /\ ret = NoCall

\* An administrator saves a new row of the global flag.
SaveGlobalFlag(limit, enabled, all) ==
    /\ now < limit
    /\ now' = now + 1
    /\ PersistentGradesEnabledFlag' = PersistentGradesEnabledFlag \cup
         {[enabled |-> enabled, enabled_for_all_courses |-> all, change_date |-> now + 1]}
    /\ ret' = NoCall
    /\ UNCHANGED <<FEATURES, CoursePersistentGradesFlag, active, cache, first>>

\* An administrator saves a new row of the flag of one course.
SaveCourseFlag(limit, course_id, enabled) ==
    /\ now < limit
    /\ now' = now + 1
    /\ CoursePersistentGradesFlag' = CoursePersistentGradesFlag \cup
         {[course_id |-> course_id, enabled |-> enabled, change_date |-> now + 1]}
    /\ ret' = NoCall
    /\ UNCHANGED <<FEATURES, PersistentGradesEnabledFlag, active, cache, first>>

\* A request starts.
BeginRequest(r) ==
    /\ ~active[r]
    /\ active' = [active EXCEPT ![r] = TRUE]
    /\ first' = [first EXCEPT ![r] = EmptyCache]
    /\ ret' = NoCall
    /\ UNCHANGED <<store, cache>>

\* A request ends: its request cache is discarded.
EndRequest(r) ==
    /\ active[r]
    /\ active' = [active EXCEPT ![r] = FALSE]
    /\ cache' = [cache EXCEPT ![cache_slot(r)] = EmptyCache]
    /\ first' = [first EXCEPT ![r] = EmptyCache]
    /\ ret' = NoCall
    /\ UNCHANGED store

\* The record of a call of feature_enabled(course_id) in request r that
\* returned value.
Returned(r, course_id, value, hit) ==
    [call |-> TRUE, req |-> r, course_id |-> course_id, value |-> value,
     hit |-> hit, first |-> ~first[r][course_id].is_found]

\* first after a call of feature_enabled(course_id) in r that returned value.
FirstAfter(r, course_id, value) ==
    IF first[r][course_id].is_found THEN first
    ELSE [first EXCEPT ![r][course_id] = Cached(value)]

\* Variant of feature_enabled: the method without the @request_cached()
\* decorator.
feature_enabled_undecorated(r, course_id) ==
    /\ active[r]
    /\ first' = FirstAfter(r, course_id, feature_enabled_body(course_id))
    /\ ret' = Returned(r, course_id, feature_enabled_body(course_id), FALSE)
    /\ UNCHANGED <<store, active, cache>>

\* PersistentGradesEnabledFlag.feature_enabled(course_id) called in request r.
feature_enabled(r, course_id) ==
    /\ active[r]
    /\ cache' = cache_set(r, course_id)
    /\ first' = FirstAfter(r, course_id, request_cached(r, course_id))
    /\ ret' = Returned(r, course_id, request_cached(r, course_id),
                       is_found(r, cache_key(course_id)))
    /\ UNCHANGED <<store, active>>

NextFor(RS, limit) ==
    \/ \E e \in BOOLEAN, a \in BOOLEAN : SaveGlobalFlag(limit, e, a)
    \/ \E c \in Courses, e \in BOOLEAN : SaveCourseFlag(limit, c, e)
    \/ \E r \in RS : BeginRequest(r)
    \/ \E r \in RS : EndRequest(r)
    \/ \E r \in RS, c \in CourseIds : feature_enabled(r, c)

Next == NextFor(Requests, MaxSaves)
Spec == Init /\ [][Next]_vars

NextRequests == NextFor(AllRequests, MaxSavesRequests)
SpecRequests == Init /\ [][NextRequests]_vars

\* ------------------------------------------------------------ properties
\* g is the current row of the global flag: the saved row with the greatest
\* change_date.
CurrentGlobalRow(g) ==
    /\ g \in PersistentGradesEnabledFlag
    /\ \A h \in PersistentGradesEnabledFlag : h.change_date <= g.change_date

\* x is the latest row of course c.
LatestCourseRow(c, x) ==
    /\ x \in CoursePersistentGradesFlag
    /\ x.course_id = c
    /\ \A y \in CoursePersistentGradesFlag :
          y.course_id = c => y.change_date <= x.change_date

\* The call that has just returned was not served from the request cache.
UncachedCall == ret.call /\ ~ret.hit

\* The feature setting is unset (absent or False).
OverrideUnset == FEATURES \in {None, "False"}

\* The current global row is enabled, not for all courses, and the setting
\* is unset: the per-course rows decide.
PerCourseMode ==
    /\ OverrideUnset
    /\ \E g \in PersistentGradesEnabledFlag :
          CurrentGlobalRow(g) /\ g.enabled /\ ~g.enabled_for_all_courses

\* C1: with the setting unset and the current global row disabled, an
\* uncached feature_enabled returns False for every course_id and for none,
\* whatever the course rows and enabled_for_all_courses are.
C1_GlobalDisabledMeansFalse ==
    (/\ UncachedCall
     /\ OverrideUnset
     /\ \E g \in PersistentGradesEnabledFlag : CurrentGlobalRow(g) /\ ~g.enabled)
    => ret.value = FALSE

\* An uncached call for a course whose latest row is enabled returned False
\* under a disabled current global row that has enabled_for_all_courses set.
C1_Witness ==
    /\ UncachedCall
    /\ OverrideUnset
    /\ \E g \in PersistentGradesEnabledFlag :
          CurrentGlobalRow(g) /\ ~g.enabled /\ g.enabled_for_all_courses
    /\ \E x \in CoursePersistentGradesFlag :
          LatestCourseRow(ret.course_id, x) /\ x.enabled
    /\ ret.value = FALSE

\* C2: in per-course mode an uncached feature_enabled(c) returns the enabled
\* value of the row of c with the greatest change_date; older rows of c do
\* not count.
C2_LatestCourseRowDecides ==
    (UncachedCall /\ PerCourseMode)
    => \A x \in CoursePersistentGradesFlag :
          LatestCourseRow(ret.course_id, x) => ret.value = x.enabled

\* An uncached call in per-course mode returned the value of the latest row
\* of its course although an older row of that course says the opposite.
C2_Witness ==
    /\ UncachedCall
    /\ PerCourseMode
    /\ \E x, y \in CoursePersistentGradesFlag :
          /\ LatestCourseRow(ret.course_id, x)
          /\ y.course_id = ret.course_id
          /\ y.change_date < x.change_date
          /\ y.enabled /= x.enabled
          /\ ret.value = x.enabled

\* C3: when the current global row is enabled with enabled_for_all_courses,
\* an uncached feature_enabled returns True for every course_id and for
\* none, also for a course whose latest row is disabled or that has no row.
C3_AllCoursesMeansTrue ==
    (/\ UncachedCall
     /\ \E g \in PersistentGradesEnabledFlag :
          CurrentGlobalRow(g) /\ g.enabled /\ g.enabled_for_all_courses)
    => ret.value = TRUE

\* An uncached call for a course whose latest row is disabled returned True
\* under enabled_for_all_courses, with the setting unset.
C3_Witness ==
    /\ UncachedCall
    /\ OverrideUnset
    /\ \E g \in PersistentGradesEnabledFlag :
          CurrentGlobalRow(g) /\ g.enabled /\ g.enabled_for_all_courses
    /\ \E x \in CoursePersistentGradesFlag :
          LatestCourseRow(ret.course_id, x) /\ ~x.enabled
    /\ ret.value = TRUE

\* C4: in per-course mode an uncached feature_enabled(c) for a course
\* without any row returns False, a normal result, also when other courses
\* have enabled rows.
C4_NoCourseRowMeansFalse ==
    (/\ UncachedCall
     /\ PerCourseMode
     /\ ret.course_id \in Courses
     /\ \A x \in CoursePersistentGradesFlag : x.course_id /= ret.course_id)
    => ret.value = FALSE

\* An uncached call in per-course mode for a course without a row returned
\* False while another course has an enabled row.
C4_Witness ==
    /\ UncachedCall
    /\ PerCourseMode
    /\ ret.course_id \in Courses
    /\ \A x \in CoursePersistentGradesFlag : x.course_id /= ret.course_id
    /\ \E x \in CoursePersistentGradesFlag : x.enabled
    /\ ret.value = FALSE

\* C5: in per-course mode an uncached feature_enabled() without a course_id
\* returns True, whatever the course rows are.
C5_NoCourseIdMeansTrue ==
    (UncachedCall /\ PerCourseMode /\ ret.course_id = None)
    => ret.value = TRUE

\* An uncached call without a course_id returned True in per-course mode
\* while every saved course row is disabled.
C5_Witness ==
    /\ UncachedCall
    /\ PerCourseMode
    /\ ret.course_id = None
    /\ CoursePersistentGradesFlag /= {}
    /\ \A x \in CoursePersistentGradesFlag : ~x.enabled
    /\ ret.value = TRUE

\* C6: when the feature setting is set, an uncached feature_enabled returns
\* True for every course_id and for none in every state of the tables.
C6_OverrideMeansTrue ==
    (UncachedCall /\ FEATURES = "True") => ret.value = TRUE

\* An uncached call for a course returned True under the setting although
\* the current global row is disabled and the course's latest row too.
C6_Witness ==
    /\ UncachedCall
    /\ FEATURES = "True"
    /\ \E g \in PersistentGradesEnabledFlag :
          CurrentGlobalRow(g) /\ ~g.enabled /\ ~g.enabled_for_all_courses
    /\ \E x \in CoursePersistentGradesFlag :
          LatestCourseRow(ret.course_id, x) /\ ~x.enabled
    /\ ret.value = TRUE

\* C7: within a request every call with a course_id returns what the first
\* call with that course_id in the request returned, whatever was saved in
\* between; the first call with a course_id is not served from the cache but
\* resolved from the tables.
C7_CachedPerCourseIdWithinRequest ==
    ret.call =>
        /\ ret.value = first[ret.req][ret.course_id].value
        /\ ret.first => (~ret.hit /\ ret.value = feature_enabled_body(ret.course_id))
        /\ ~ret.first => ret.hit

\* A repeated call returned the first call's value, which the tables no
\* longer give, while the same request holds another value under another
\* course_id.
C7_Witness ==
    /\ ret.call
    /\ ~ret.first
    /\ ret.hit
    /\ ret.value /= feature_enabled_body(ret.course_id)
    /\ \E k \in CourseIds \ {ret.course_id} :
          /\ cache[ret.req][k].is_found
          /\ cache[ret.req][k].value /= ret.value

\* C8: the cache of a request that is not running is empty, and the first
\* call with a course_id in a request returns the value resolved from the
\* tables at that moment, whatever other requests have cached.
C8_NoCrossRequestSharing ==
    /\ \A r \in AllRequests : ~active[r] => cache[r] = EmptyCache
    /\ (ret.call /\ ret.first) => ret.value = feature_enabled_body(ret.course_id)

\* The first call with a course_id in a request returned the resolved value
\* while a concurrently running request holds the opposite value cached for
\* the same course_id.
C8_Witness ==
    /\ ret.call
    /\ ret.first
    /\ \E r \in AllRequests \ {ret.req} :
          /\ active[r]
          /\ cache[r][ret.course_id].is_found
          /\ cache[r][ret.course_id].value /= ret.value

\* C9: with the setting unset and no global row ever saved, an uncached
\* feature_enabled returns False for every course_id and for none, also
\* when enabled course rows exist.
C9_DefaultsToOff ==
    (UncachedCall /\ OverrideUnset /\ PersistentGradesEnabledFlag = {})
    => ret.value = FALSE

\* An uncached call for a course whose latest row is enabled returned False
\* while no global row exists.
C9_Witness ==
    /\ UncachedCall
    /\ OverrideUnset
    /\ PersistentGradesEnabledFlag = {}
    /\ \E x \in CoursePersistentGradesFlag :
          LatestCourseRow(ret.course_id, x) /\ x.enabled
    /\ ret.value = FALSE

\* C10: when an uncached feature_enabled(c) for a course returns True, an
\* uncached feature_enabled() without a course_id returns True in the same
\* state of the tables.
C10_CourseNeverMorePermissive ==
    (UncachedCall /\ ret.course_id \in Courses /\ ret.value = TRUE)
    => feature_enabled_body(None) = TRUE

\* An uncached call for a course returned True in per-course mode.
C10_Witness ==
    /\ UncachedCall
    /\ PerCourseMode
    /\ ret.course_id \in Courses
    /\ ret.value = TRUE

TypeOK ==
    /\ FEATURES \in SettingValues
    /\ now \in Nat
    /\ active \in [AllRequests -> BOOLEAN]
    /\ \A r \in AllRequests, k \in CourseIds : cache[r][k] \in {Missing, Cached(TRUE), Cached(FALSE)}
====
